---- MODULE Spec2Model ----
(***************************************************************************)
(* hasha (src/index.js): hashing on the calling thread, from streams, and  *)
(* offloaded to one lazily created worker thread through a task registry.  *)
(*                                                                         *)
(* JavaScript values are tagged records.  A string is a sequence of code   *)
(* points, a Buffer / Uint8Array / ArrayBuffer a sequence of bytes.  The   *)
(* JavaScript value undefined is the string "undefined".                   *)
(***************************************************************************)
EXTENDS Integers, Sequences, FiniteSets, TLC

\* The number of API calls made in one behaviour.
MaxCalls == 2

\* The number of calls made in one behaviour of the hashing specification.
MaxHashCalls == 1
MaxRequests == 2

undefined == "undefined"

----------------------------------------------------------------------------
(* JavaScript values                                                       *)

Str(cps) == [t |-> "string", v |-> cps]
Buf(bytes) == [t |-> "buffer", v |-> bytes]
U8(bytes) == [t |-> "uint8array", v |-> bytes]
ArrBuf(bytes) == [t |-> "arraybuffer", v |-> bytes]
Arr(parts) == [t |-> "array", v |-> parts]
\* A value the structured clone algorithm refuses (a function).
Fn == [t |-> "function", v |-> <<>>]

\* Buffer's UTF-8 encoding of one code point (code points below 0x800).
Utf8(cp) ==
    IF cp < 128 THEN <<cp>>
    ELSE <<192 + (cp \div 64), 128 + (cp % 64)>>

RECURSIVE Utf8Bytes(_)
Utf8Bytes(cps) ==
    IF cps = <<>> THEN <<>>
    ELSE Utf8(Head(cps)) \o Utf8Bytes(Tail(cps))

HexDigit(d) == IF d < 10 THEN 48 + d ELSE 87 + d

\* Buffer.prototype.toString('hex')
RECURSIVE HexString(_)
HexString(bytes) ==
    IF bytes = <<>> THEN <<>>
    ELSE <<HexDigit(Head(bytes) \div 16), HexDigit(Head(bytes) % 16)>>
            \o HexString(Tail(bytes))

\* Buffer.prototype.toString('latin1'): each byte becomes the code point of
\* the same number.
Latin1String(bytes) == bytes

\* Buffer.prototype.toString(encoding); undefined means utf8, which the
\* model does not decode (no call reaches it: undefined is handled before).
BufferToString(bytes, encoding) ==
    IF encoding = "hex" THEN Str(HexString(bytes))
    ELSE Str(Latin1String(bytes))

----------------------------------------------------------------------------
(* Errors: a message, a stack and the own enumerable properties.           *)
(* A property is [key, type, v]: type is what typeof gives, v a printed    *)
(* form of the value.                                                      *)

Prop(key, type, v) == [key |-> key, type |-> type, v |-> v]

MkError(message, stack, props) ==
    [message |-> message, stack |-> stack, props |-> props]

\* crypto.createHash with an algorithm OpenSSL does not know.
ErrUnsupported ==
    MkError("Digest method not supported", "at crypto.createHash",
            {Prop("code", "string", "ERR_OSSL_EVP_UNSUPPORTED"),
             Prop("opensslErrorStack", "object", "[...]")})

\* hash.update with something that is neither a string nor a buffer.
ErrInvalidArg ==
    MkError("The \"data\" argument must be of type string or Buffer",
            "at Hash.update",
            {Prop("code", "string", "ERR_INVALID_ARG_TYPE")})

\* fs.createReadStream on a path that does not exist.
ErrNoEnt ==
    MkError("ENOENT: no such file or directory", "at fs.open",
            {Prop("errno", "number", "-2"), Prop("code", "string", "ENOENT"),
             Prop("syscall", "string", "open")})

\* A read failing part-way through a file or a stream.
ErrIO ==
    MkError("EIO: i/o error, read", "at fs.read",
            {Prop("errno", "number", "-5"), Prop("code", "string", "EIO"),
             Prop("syscall", "string", "read")})

\* postMessage with a value the structured clone algorithm refuses.
ErrDataClone ==
    MkError("could not be cloned", "at Worker.postMessage",
            {Prop("code", "number", "25")})

\* crypto.createHash with an algorithm that is no string.
ErrInvalidAlgorithm ==
    MkError("The \"algorithm\" argument must be of type string",
            "at crypto.createHash",
            {Prop("code", "string", "ERR_INVALID_ARG_TYPE")})

\* Buffer.prototype.toString with an encoding it does not know.
ErrUnknownEncoding ==
    MkError("Unknown encoding", "at Buffer.toString",
            {Prop("code", "string", "ERR_UNKNOWN_ENCODING")})

Ok(value) == [ok |-> TRUE, value |-> value]
Throw(error) == [ok |-> FALSE, value |-> error]

----------------------------------------------------------------------------
(* The hasher of the crypto library.                                       *)

Algorithms == {"sha512", "md5"}

AlgTag(algorithm) == IF algorithm = "sha512" THEN 1 ELSE 2

\* The digest is a collision-free function of the algorithm and of the
\* bytes fed so far: two digests are equal exactly when both agree.
Digest(algorithm, bytes) == <<AlgTag(algorithm)>> \o bytes

\* crypto.createHash(algorithm)
createHash(algorithm) ==
    IF algorithm \in Algorithms
    THEN Ok([algorithm |-> algorithm, fed |-> <<>>])
    ELSE IF algorithm = "null" THEN Throw(ErrInvalidAlgorithm)
    ELSE Throw(ErrUnsupported)

\* hash.update(data, inputEncoding); the input encoding of a string is
\* utf8 when given as 'utf8' and when left out.
HashUpdate(hasher, data) ==
    IF data.t = "string"
    THEN Ok([hasher EXCEPT !.fed = @ \o Utf8Bytes(data.v)])
    ELSE IF data.t \in {"buffer", "uint8array"}
    THEN Ok([hasher EXCEPT !.fed = @ \o data.v])
    ELSE Throw(ErrInvalidArg)

\* hash.digest(encoding)
HashDigest(hasher, encoding) ==
    IF encoding = undefined
    THEN Buf(Digest(hasher.algorithm, hasher.fed))
    ELSE BufferToString(Digest(hasher.algorithm, hasher.fed), encoding)

\* Feeding the parts of an array last to first.
RECURSIVE UpdateAll_Reversed(_, _)
UpdateAll_Reversed(hasher, parts) ==
    IF parts = <<>> THEN Ok(hasher)
    ELSE LET r == HashUpdate(hasher, parts[Len(parts)])
         IN IF r.ok THEN UpdateAll_Reversed(r.value, SubSeq(parts, 1, Len(parts) - 1))
            ELSE r

\* Feeding the parts of an array in order; stops at the first throw.
RECURSIVE UpdateAll(_, _)
UpdateAll(hasher, parts) ==
    IF parts = <<>> THEN Ok(hasher)
    ELSE LET r == HashUpdate(hasher, Head(parts))
         IN IF r.ok THEN UpdateAll(r.value, Tail(parts)) ELSE r

\* x || dflt for the option values of the model.
OrDefault(x, dflt) == IF x \in {undefined, "null", ""} THEN dflt ELSE x

\* The output encoding hasha and hasha.stream hand to the hasher.
OutputEncoding(options) ==
    LET outputEncoding == OrDefault(options.encoding, "hex")
    IN IF outputEncoding = "buffer" THEN undefined ELSE outputEncoding

\* hasha(input, options)
hasha(input, options) ==
    LET hash == createHash(OrDefault(options.algorithm, "sha512"))
    IN IF ~hash.ok THEN hash
       ELSE LET fed == IF input.t = "array"
                       THEN UpdateAll(hash.value, input.v)
                       ELSE HashUpdate(hash.value, input)
            IN IF ~fed.ok THEN fed
               ELSE Ok(HashDigest(fed.value, OutputEncoding(options)))

----------------------------------------------------------------------------
(* The state of the process.                                               *)

VARIABLES
    Worker,         \* the worker_threads capability: "undefined" or "Worker"
    worker,         \* 0 while undefined, else the instance createWorker made
    created,        \* how many Worker instances were constructed
    refd,           \* "undefined" without a worker, else "ref" or "unref"
    taskIdCounter,
    tasks,          \* the registry: task id -> index of the call it settles
    calls,          \* the API calls made so far, each with its promise
    toWorker,       \* requests posted to the worker, in order
    jobs,           \* hashFile handlers running in the worker: id -> pipeline
    toMain,         \* responses posted to the main thread, in order
    streams,        \* fromStream pipelines on the main thread: call -> pipeline
    faulted,        \* the worker's 'error' event fired
    listenerThrew   \* the 'message' listener threw

vars == <<Worker, worker, created, refd, taskIdCounter, tasks, calls,
          toWorker, jobs, toMain, streams, faulted, listenerThrew>>

Undefined == [t |-> "undefined", v |-> <<>>]

----------------------------------------------------------------------------
(* Promises: only the first resolve or reject settles; settles counts the  *)
(* calls of resolve and reject.                                            *)

Pending == [state |-> "pending", value |-> Undefined, settles |-> 0]

Resolve(p, value) ==
    IF p.state = "pending"
    THEN [state |-> "resolved", value |-> value, settles |-> p.settles + 1]
    ELSE [p EXCEPT !.settles = @ + 1]

Reject(p, error) ==
    IF p.state = "pending"
    THEN [state |-> "rejected", value |-> error, settles |-> p.settles + 1]
    ELSE [p EXCEPT !.settles = @ + 1]

\* The promise of an async function whose body returned or threw.
Settled(outcome) ==
    IF outcome.ok THEN Resolve(Pending, outcome.value)
    ELSE Reject(Pending, outcome.value)

----------------------------------------------------------------------------
(* The error codec.                                                        *)

\* An encoder that copies the string properties only.
EncodeError_StringsOnly(error) ==
    LET copied == {p \in error.props : p.type = "string"}
        base == {Prop("message", "string", error.message),
                 Prop("stack", "string", error.stack)}
    IN {b \in base : \A p \in copied : p.key # b.key} \cup copied

\* The catch block of the worker's message handler: message and stack,
\* then every own enumerable property whose typeof is not 'object'.
EncodeError(error) ==
    LET copied == {p \in error.props : p.type # "object"}
        base == {Prop("message", "string", error.message),
                 Prop("stack", "string", error.stack)}
    IN {b \in base : \A p \in copied : p.key # b.key} \cup copied

\* What the structured clone algorithm refuses in a posted message.
Cloneable(props) == \A p \in props : p.type \notin {"function", "symbol"}

recreateWorkerError(sourceError) ==
    LET msg == CHOOSE p \in sourceError : p.key = "message"
        rest == {p \in sourceError : p.key # "message"}
        stacks == {p \in rest : p.key = "stack"}
    IN MkError(msg.v,
               IF stacks = {} THEN "at recreateWorkerError"
               ELSE (CHOOSE p \in stacks : TRUE).v,
               {p \in rest : p.key # "stack"})

----------------------------------------------------------------------------
(* Files and streams.                                                      *)

PathHello == <<47, 104>>
PathMissing == <<47, 109>>

\* The bytes of the file at PathHello: "hello".
HelloBytes == <<104, 101, 108, 108, 111>>

\* The chunks a read stream of the file emits.
FileChunks(path) ==
    IF path = PathHello
    THEN <<Buf(SubSeq(HelloBytes, 1, 3)), Buf(SubSeq(HelloBytes, 4, 5))>>
    ELSE <<>>

\* A readable stream: the chunks it will emit, whether opening it fails,
\* and whether an error destroys it (autoDestroy) or it keeps flowing.
Stream(chunks, openError, autoDestroy) ==
    [t |-> "stream", v |-> chunks, openError |-> openError,
     autoDestroy |-> autoDestroy]

\* fs.createReadStream(path)
createReadStream(path) ==
    Stream(FileChunks(path), path # PathHello, TRUE)

\* A source piped into a hasher: what the source has left to emit, its
\* state, and the hasher.
Pipeline(source, hasher) ==
    [left |-> source.v, src |-> "flowing", errored |-> FALSE,
     openError |-> source.openError, autoDestroy |-> source.autoDestroy,
     hasher |-> hasher]

\* The source emits its next chunk, which pipe writes to the hasher.
PipeData(s) ==
    [s EXCEPT !.left = Tail(@),
              !.hasher = HashUpdate(@, Head(s.left)).value]

CanData(s) == s.src = "flowing" /\ ~s.openError /\ s.left # <<>>
CanEnd(s) == s.src = "flowing" /\ ~s.openError /\ s.left = <<>>
CanError(s) == s.src = "flowing" /\ ~s.errored

\* The error a source emits: opening failed, or a read failed.
SourceError(s) == IF s.openError THEN ErrNoEnt ELSE ErrIO

PipeError(s) ==
    [s EXCEPT !.errored = TRUE,
              !.src = IF s.autoDestroy \/ s.openError THEN "destroyed"
                      ELSE "flowing"]

PipeEnd(s) == [s EXCEPT !.src = "ended"]

----------------------------------------------------------------------------
(* Finite maps.                                                            *)

EmptyMap == [x \in {} |-> Undefined]
MapPut(f, k, val) == [x \in DOMAIN f \cup {k} |-> IF x = k THEN val ELSE f[x]]
MapDel(f, k) == [x \in DOMAIN f \ {k} |-> f[x]]

----------------------------------------------------------------------------
(* The worker thread.                                                      *)

\* The structured clone of a posted value: a Buffer arrives as a
\* Uint8Array, a function is refused.
RECURSIVE CanClone(_)
CanClone(value) ==
    IF value.t = "function" THEN FALSE
    ELSE IF value.t = "array"
    THEN \A i \in 1..Len(value.v) : CanClone(value.v[i])
    ELSE TRUE

RECURSIVE Clone(_), CloneAll(_)
Clone(value) ==
    IF value.t = "buffer" THEN U8(value.v)
    ELSE IF value.t = "array" THEN Arr(CloneAll(value.v))
    ELSE value

CloneAll(values) ==
    IF values = <<>> THEN <<>>
    ELSE <<Clone(Head(values))>> \o CloneAll(Tail(values))

\* const {buffer} = new Uint8Array(digest)
ToArrayBuffer(buffer) == ArrBuf(buffer.v)

\* A handler that hands an array to update as it is.
handlers_hash_NoArray(algorithm, input) ==
    LET hasher == createHash(algorithm)
    IN IF ~hasher.ok THEN hasher
       ELSE LET fed == HashUpdate(hasher.value, input)
            IN IF ~fed.ok THEN fed
               ELSE Ok(ToArrayBuffer(HashDigest(fed.value, undefined)))

\* handlers.hash(algorithm, input)
handlers_hash(algorithm, input) ==
    LET hasher == createHash(algorithm)
    IN IF ~hasher.ok THEN hasher
       ELSE LET fed == IF input.t = "array"
                       THEN UpdateAll(hasher.value, input.v)
                       ELSE HashUpdate(hasher.value, input)
            IN IF ~fed.ok THEN fed
               ELSE Ok(ToArrayBuffer(HashDigest(fed.value, undefined)))

\* A message handler whose catch block posts nothing.
Response_SilentError(id, outcome) ==
    IF outcome.ok
    THEN <<[id |-> id, value |-> outcome.value, error |-> Undefined]>>
    ELSE <<>>

\* A message handler that posts its response twice.
Response_Twice(id, outcome) ==
    IF outcome.ok
    THEN <<[id |-> id, value |-> outcome.value, error |-> Undefined],
           [id |-> id, value |-> outcome.value, error |-> Undefined]>>
    ELSE <<[id |-> id, value |-> Undefined,
            error |-> [t |-> "object", v |-> EncodeError(outcome.value)]],
           [id |-> id, value |-> Undefined,
            error |-> [t |-> "object", v |-> EncodeError(outcome.value)]]>>

\* The response the message handler posts for a handler's outcome: the
\* value, or the encoded error.  Nothing is posted when the encoded error
\* cannot be cloned (postMessage throws inside the catch block).
Response(id, outcome) ==
    IF outcome.ok
    THEN <<[id |-> id, value |-> outcome.value, error |-> Undefined]>>
    ELSE IF Cloneable(EncodeError(outcome.value))
    THEN <<[id |-> id, value |-> Undefined,
            error |-> [t |-> "object", v |-> EncodeError(outcome.value)]]>>
    ELSE <<>>

ErrUnknownMethod ==
    MkError("Unknown method", "at parentPort.on", {})

\* parentPort.on('message'): the worker takes the next request.  A hash
\* request is answered in the same turn; a hashFile request opens the file
\* and is answered when its pipeline finishes or fails.
WorkerMessage ==
    /\ toWorker # <<>>
    /\ ~faulted
    /\ LET message == Head(toWorker)
           algorithm == message.args[1]
       IN /\ toWorker' = Tail(toWorker)
          /\ IF message.method = "hash"
             THEN /\ toMain' = toMain \o
                        Response(message.id,
                                 handlers_hash(algorithm, message.args[2]))
                  /\ jobs' = jobs
             ELSE IF message.method = "hashFile"
             THEN LET hasher == createHash(algorithm)
                  IN IF hasher.ok
                     THEN /\ jobs' = MapPut(jobs, message.id,
                                 Pipeline(createReadStream(message.args[2].v),
                                          hasher.value))
                          /\ toMain' = toMain
                     ELSE /\ toMain' = toMain \o Response(message.id, hasher)
                          /\ jobs' = jobs
             ELSE /\ toMain' = toMain \o
                        Response(message.id, Throw(ErrUnknownMethod))
                  /\ jobs' = jobs
    /\ UNCHANGED <<Worker, worker, created, refd, taskIdCounter, tasks,
                   calls, streams, faulted, listenerThrew>>

\* handlers.hashFile: the read stream emits a chunk into the hasher.
WorkerFileData(id) ==
    /\ ~faulted
    /\ id \in DOMAIN jobs
    /\ CanData(jobs[id])
    /\ jobs' = [jobs EXCEPT ![id] = PipeData(@)]
    /\ UNCHANGED <<Worker, worker, created, refd, taskIdCounter, tasks,
                   calls, toWorker, toMain, streams, faulted, listenerThrew>>

\* handlers.hashFile: the read stream ends, the hasher finishes and the
\* handler resolves with the digest, which is posted.
WorkerFileFinish(id) ==
    /\ ~faulted
    /\ id \in DOMAIN jobs
    /\ CanEnd(jobs[id])
    /\ toMain' = toMain \o
          Response(id, Ok(ToArrayBuffer(HashDigest(jobs[id].hasher, undefined))))
    /\ jobs' = MapDel(jobs, id)
    /\ UNCHANGED <<Worker, worker, created, refd, taskIdCounter, tasks,
                   calls, toWorker, streams, faulted, listenerThrew>>

\* handlers.hashFile: the read stream emits 'error', the handler rejects
\* and the encoded error is posted.
WorkerFileError(id) ==
    /\ ~faulted
    /\ id \in DOMAIN jobs
    /\ CanError(jobs[id])
    /\ toMain' = toMain \o Response(id, Throw(SourceError(jobs[id])))
    /\ jobs' = MapDel(jobs, id)
    /\ UNCHANGED <<Worker, worker, created, refd, taskIdCounter, tasks,
                   calls, toWorker, streams, faulted, listenerThrew>>

\* A fault handler that clears the worker, so that the next dispatch
\* starts a replacement.
WorkerError_Restart ==
    /\ worker # 0
    /\ ~faulted
    /\ faulted' = TRUE
    /\ worker' = 0
    /\ UNCHANGED <<Worker, created, refd, taskIdCounter, tasks,
                   calls, toWorker, jobs, toMain, streams, listenerThrew>>

\* worker.on('error'): a fault of the worker itself; the listener rethrows
\* and the worker thread is gone.
WorkerError ==
    /\ worker # 0
    /\ ~faulted
    /\ faulted' = TRUE
    /\ UNCHANGED <<Worker, worker, created, refd, taskIdCounter, tasks,
                   calls, toWorker, jobs, toMain, streams, listenerThrew>>

----------------------------------------------------------------------------
(* The main thread: the registry, the listener and the dispatcher.         *)

\* A call of the API: its arguments, the task id its promise executor
\* allocated (-1 when it made no task) and its promise.
Call(api, input, options, id, fut) ==
    [api |-> api, input |-> input, options |-> options, id |-> id,
     fut |-> fut]

\* A listener that takes the oldest task instead of the task of the id.
tasks_get_oldest(message) ==
    tasks[CHOOSE id \in DOMAIN tasks : \A other \in DOMAIN tasks : id <= other]

\* A listener that takes the newest task instead of the task of the id.
tasks_get_newest(message) ==
    tasks[CHOOSE id \in DOMAIN tasks : \A other \in DOMAIN tasks : id >= other]

\* tasks.get(message.id): the call whose promise the listener settles.
tasks_get(message) == tasks[message.id]

\* A listener that forgets the error branch.
Settle_ValueOnly(fut, message) ==
    IF message.error = Undefined
    THEN Resolve(fut, message.value)
    ELSE fut

\* The listener's settlement of a task's promise with a response.
Settle(fut, message) ==
    IF message.error = Undefined
    THEN Resolve(fut, message.value)
    ELSE Reject(fut, recreateWorkerError(message.error.v))

\* worker.on('message'): the listener takes the next response, removes the
\* task of its id from the registry, unreferences the worker when the
\* registry is empty, and settles the task.  With no task of that id the
\* lookup gives undefined and task.resolve / task.reject throws.
MainMessage ==
    /\ toMain # <<>>
    /\ LET message == Head(toMain)
           known == message.id \in DOMAIN tasks
           left == MapDel(tasks, message.id)
       IN /\ toMain' = Tail(toMain)
          /\ tasks' = left
          /\ refd' = IF DOMAIN left = {} THEN "unref" ELSE refd
          /\ IF known
             THEN /\ calls' = [calls EXCEPT ![tasks_get(message)].fut =
                                    Settle(@, message)]
                  /\ listenerThrew' = listenerThrew
             ELSE /\ calls' = calls
                  /\ listenerThrew' = TRUE
    /\ UNCHANGED <<Worker, worker, created, taskIdCounter, toWorker, jobs,
                   streams, faulted>>

\* A dispatcher that forgets to advance the counter.
nextTaskId_Stuck == taskIdCounter

\* The counter after "const id = taskIdCounter++".
nextTaskId == taskIdCounter + 1

\* A dispatcher that creates a worker for every task.
lazyWorker_Always == created + 1

\* The worker after "if (worker === undefined) createWorker()".
lazyWorker == IF worker = 0 THEN created + 1 ELSE worker

\* taskWorker(method, args) for the call being made: the promise executor
\* allocates an id, registers the task, creates the worker if there is
\* none, references it and posts the request.  postMessage throws when the
\* arguments cannot be cloned, which rejects the promise; a worker that is
\* gone drops the request.
taskWorker(api, input, options, method, args) ==
    LET id == taskIdCounter
        sent == CanClone(args[2])
    IN /\ taskIdCounter' = nextTaskId
       /\ tasks' = MapPut(tasks, id, Len(calls) + 1)
       /\ worker' = lazyWorker
       /\ created' = IF lazyWorker # worker THEN created + 1 ELSE created
       /\ refd' = "ref"
       /\ toWorker' =
            IF sent /\ ~faulted
            THEN Append(toWorker,
                        [id |-> id, method |-> method,
                         args |-> <<args[1], Clone(args[2])>>])
            ELSE toWorker
       /\ calls' = Append(calls,
            Call(api, input, options, id,
                 IF sent THEN Pending ELSE Reject(Pending, ErrDataClone)))
       /\ UNCHANGED <<Worker, jobs, toMain, streams, faulted, listenerThrew>>

\* The default of a destructured option: only undefined takes it.
Default(x, dflt) == IF x = undefined THEN dflt ELSE x

\* hasha(input, options) called directly; fut holds what it returned or
\* threw.
Hasha(input, options) ==
    /\ calls' = Append(calls,
          Call("hasha", input, options, -1, Settled(hasha(input, options))))
    /\ UNCHANGED <<Worker, worker, created, refd, taskIdCounter, tasks,
                   toWorker, jobs, toMain, streams, faulted, listenerThrew>>

\* hasha.stream(options): the hasher and the encoding set on it.
hasha_stream(options) ==
    LET stream == createHash(OrDefault(options.algorithm, "sha512"))
    IN IF ~stream.ok THEN stream
       ELSE Ok([hasher |-> stream.value, encoding |-> OutputEncoding(options)])

\* new TypeError('Expected a stream')
ErrExpectedStream ==
    MkError("Expected a stream", "TypeError at hasha.fromStream", {})

\* is-stream
isStream(stream) == stream.t = "stream"

\* fromStream that makes the hasher before it looks at the stream.
fromStream_HasherFirst(api, input, options, stream) ==
    LET dest == hasha_stream(options)
        c == Len(calls) + 1
    IN /\ IF ~dest.ok
          THEN /\ calls' = Append(calls,
                     Call(api, input, options, -1,
                          Reject(Pending, dest.value)))
               /\ streams' = streams
          ELSE IF ~isStream(stream)
          THEN /\ calls' = Append(calls,
                     Call(api, input, options, -1,
                          Reject(Pending, ErrExpectedStream)))
               /\ streams' = streams
          ELSE /\ calls' = Append(calls, Call(api, input, options, -1, Pending))
               /\ streams' = MapPut(streams, c,
                     [pipe |-> Pipeline(stream, dest.value.hasher),
                      encoding |-> dest.value.encoding])
       /\ UNCHANGED <<Worker, worker, created, refd, taskIdCounter, tasks,
                      toWorker, jobs, toMain, faulted, listenerThrew>>

\* hasha.fromStream(stream, options) for the call being made.
fromStream(api, input, options, stream) ==
    LET dest == hasha_stream(options)
        c == Len(calls) + 1
    IN /\ IF ~isStream(stream)
          THEN /\ calls' = Append(calls,
                     Call(api, input, options, -1,
                          Reject(Pending, ErrExpectedStream)))
               /\ streams' = streams
          ELSE IF ~dest.ok
          THEN /\ calls' = Append(calls,
                     Call(api, input, options, -1,
                          Reject(Pending, dest.value)))
               /\ streams' = streams
          ELSE /\ calls' = Append(calls, Call(api, input, options, -1, Pending))
               /\ streams' = MapPut(streams, c,
                     [pipe |-> Pipeline(stream, dest.value.hasher),
                      encoding |-> dest.value.encoding])
       /\ UNCHANGED <<Worker, worker, created, refd, taskIdCounter, tasks,
                      toWorker, jobs, toMain, faulted, listenerThrew>>

HashaFromStream(stream, options) ==
    fromStream("fromStream", stream, options, stream)

\* hasha.async that offloads whether or not the capability exists.
HashaAsync_AlwaysOffload(input, options) ==
    taskWorker("async", input, options, "hash",
               <<Default(options.algorithm, "sha512"), input>>)

\* hasha.async(input, options): the synchronous path without the worker
\* capability, else a hash task.
HashaAsync(input, options) ==
    IF Worker = undefined
    THEN /\ calls' = Append(calls,
               Call("async", input, options, -1, Settled(hasha(input, options))))
         /\ UNCHANGED <<Worker, worker, created, refd, taskIdCounter, tasks,
                        toWorker, jobs, toMain, streams, faulted,
                        listenerThrew>>
    ELSE taskWorker("async", input, options, "hash",
                    <<Default(options.algorithm, "sha512"), input>>)

\* hasha.fromFile(filePath, options): the stream path without the worker
\* capability, else a hashFile task.
HashaFromFile(filePath, options) ==
    IF Worker = undefined
    THEN fromStream("fromFile", filePath, options,
                    createReadStream(filePath.v))
    ELSE taskWorker("fromFile", filePath, options, "hashFile",
                    <<Default(options.algorithm, "sha512"), filePath>>)

\* fromStream: the source emits a chunk, piped into the hasher.
StreamData(c) ==
    /\ c \in DOMAIN streams
    /\ CanData(streams[c].pipe)
    /\ streams' = [streams EXCEPT ![c].pipe = PipeData(@)]
    /\ UNCHANGED <<Worker, worker, created, refd, taskIdCounter, tasks,
                   calls, toWorker, jobs, toMain, faulted, listenerThrew>>

\* fromStream: the source ends, the hasher finishes and the promise is
\* resolved with what the hasher reads.
StreamFinish(c) ==
    /\ c \in DOMAIN streams
    /\ CanEnd(streams[c].pipe)
    /\ streams' = [streams EXCEPT ![c].pipe = PipeEnd(@)]
    /\ calls' = [calls EXCEPT ![c].fut =
          Resolve(@, HashDigest(streams[c].pipe.hasher, streams[c].encoding))]
    /\ UNCHANGED <<Worker, worker, created, refd, taskIdCounter, tasks,
                   toWorker, jobs, toMain, faulted, listenerThrew>>

\* fromStream without the 'error' listener on the source.
StreamError_NoReject(c) ==
    /\ c \in DOMAIN streams
    /\ CanError(streams[c].pipe)
    /\ streams' = [streams EXCEPT ![c].pipe = PipeError(@)]
    /\ UNCHANGED <<Worker, worker, created, refd, taskIdCounter, tasks,
                   calls, toWorker, jobs, toMain, faulted, listenerThrew>>

\* fromStream: the source emits 'error', which rejects the promise.
StreamError(c) ==
    /\ c \in DOMAIN streams
    /\ CanError(streams[c].pipe)
    /\ streams' = [streams EXCEPT ![c].pipe = PipeError(@)]
    /\ calls' = [calls EXCEPT ![c].fut =
          Reject(@, SourceError(streams[c].pipe))]
    /\ UNCHANGED <<Worker, worker, created, refd, taskIdCounter, tasks,
                   toWorker, jobs, toMain, faulted, listenerThrew>>

\* What hasha.async and hasha.fromFile do with the bytes of a task.
FromBytes(hash, encoding) ==
    IF encoding = "buffer" THEN Buf(hash.v)
    ELSE BufferToString(hash.v, encoding)

\* The encodings Buffer.prototype.toString is called with and throws
\* for: null and "" (an undefined encoding is replaced before).
UnknownEncoding(encoding) == encoding \in {"null", ""}

\* The promise the caller of call c holds: for a task, the task's promise
\* followed by the conversion of its bytes, which throws for an unknown
\* encoding; else the call's promise.
Returned(c) ==
    LET call == calls[c]
        encoding == Default(call.options.encoding, "hex")
    IN IF Worker # undefined /\ call.api \in {"async", "fromFile"}
          /\ call.fut.state = "resolved"
       THEN IF UnknownEncoding(encoding)
            THEN [call.fut EXCEPT !.state = "rejected",
                                  !.value = ErrUnknownEncoding]
            ELSE [call.fut EXCEPT !.value = FromBytes(@, encoding)]
       ELSE call.fut

----------------------------------------------------------------------------
(* The arguments the calls are made with.                                  *)

Opts(algorithm, encoding) == [algorithm |-> algorithm, encoding |-> encoding]

\* "ab", ["a", "b"] and a function.
HashInputs ==
    {Str(<<97, 98>>), Arr(<<Str(<<97>>), Str(<<98>>)>>), Fn}

OptionsSet ==
    {Opts(undefined, undefined), Opts("md5", "buffer"),
     Opts("bogus", "buffer")}

FilePaths == {Str(PathHello), Str(PathMissing)}

FileOptions == {Opts(undefined, undefined), Opts("md5", "buffer")}

\* A stream of two chunks that survives its errors, one that an error
\* destroys, and a string, which is no stream.
StreamInputs ==
    {Stream(<<Buf(<<97>>), Buf(<<98>>)>>, FALSE, FALSE),
     Stream(<<Buf(<<97, 98>>)>>, FALSE, TRUE),
     Str(<<97, 98>>)}

StreamOptions == {Opts(undefined, undefined), Opts("bogus", "buffer")}

----------------------------------------------------------------------------

Init ==
    /\ Worker \in {undefined, "Worker"}
    /\ worker = 0
    /\ created = 0
    /\ refd = undefined
    /\ taskIdCounter = 0
    /\ tasks = EmptyMap
    /\ calls = <<>>
    /\ toWorker = <<>>
    /\ jobs = EmptyMap
    /\ toMain = <<>>
    /\ streams = EmptyMap
    /\ faulted = FALSE
    /\ listenerThrew = FALSE

Next ==
    \/ \E input \in HashInputs, options \in OptionsSet :
          Len(calls) < MaxCalls /\ Hasha(input, options)
    \/ \E input \in HashInputs, options \in OptionsSet :
          Len(calls) < MaxCalls /\ HashaAsync(input, options)
    \/ \E filePath \in FilePaths, options \in FileOptions :
          Len(calls) < MaxCalls /\ HashaFromFile(filePath, options)
    \/ \E stream \in StreamInputs, options \in StreamOptions :
          Len(calls) < MaxCalls /\ HashaFromStream(stream, options)
    \/ \E c \in DOMAIN streams : StreamData(c)
    \/ \E c \in DOMAIN streams : StreamFinish(c)
    \/ \E c \in DOMAIN streams : StreamError(c)
    \/ WorkerMessage
    \/ \E id \in DOMAIN jobs : WorkerFileData(id)
    \/ \E id \in DOMAIN jobs : WorkerFileFinish(id)
    \/ \E id \in DOMAIN jobs : WorkerFileError(id)
    \/ WorkerError
    \/ MainMessage

Spec == Init /\ [][Next]_vars

----------------------------------------------------------------------------
(* Hashing alone: hasha and hasha.async over more inputs and options.      *)

\* "", "ab", a two-byte character, buffers, arrays of parts (empty, of
\* strings, of a buffer and a string, in the other order), an array with a
\* part that is no string or buffer, and a function.
WideInputs ==
    {Str(<<>>), Str(<<97, 98>>), Str(<<233>>),
     Buf(<<97, 98>>), Buf(<<195, 169>>),
     Arr(<<>>), Arr(<<Str(<<97>>), Str(<<98>>)>>),
     Arr(<<Str(<<98>>), Str(<<97>>)>>),
     Arr(<<Buf(<<97>>), Str(<<233, 98>>)>>),
     Arr(<<Str(<<97>>), Arr(<<>>)>>), Fn}

WideOptions ==
    {Opts(algorithm, encoding) :
        algorithm \in {undefined, "sha512", "md5", "bogus"},
        encoding \in {undefined, "hex", "buffer", "latin1"}}

NextHash ==
    \/ \E input \in WideInputs, options \in WideOptions :
          Len(calls) < MaxHashCalls /\ Hasha(input, options)
    \/ \E input \in WideInputs, options \in WideOptions :
          Len(calls) < MaxHashCalls /\ HashaAsync(input, options)
    \/ WorkerMessage
    \/ MainMessage

SpecHash == Init /\ [][NextHash]_vars

----------------------------------------------------------------------------
(* What the claims speak of.                                               *)

CallIds == 1..Len(calls)

\* The calls whose promise taskWorker made.
IsTask(c) == calls[c].id >= 0

\* The request of task id was posted (postMessage did not throw).
WasSent(c) == IsTask(c) /\ CanClone(calls[c].input)

\* The request, the running handler or the response of a task id is still
\* on its way.
InFlight(id) ==
    \/ \E i \in 1..Len(toWorker) : toWorker[i].id = id
    \/ id \in DOMAIN jobs
    \/ \E i \in 1..Len(toMain) : toMain[i].id = id

IsSettled(fut) == fut.state # "pending"

\* The algorithm a task is sent with.
TaskAlgorithm(c) == Default(calls[c].options.algorithm, "sha512")

\* The concatenated bytes of a sequence of strings and buffers.
RECURSIVE ConcatBytes(_)
ConcatBytes(parts) ==
    IF parts = <<>> THEN <<>>
    ELSE (IF Head(parts).t = "string" THEN Utf8Bytes(Head(parts).v)
          ELSE Head(parts).v) \o ConcatBytes(Tail(parts))

\* The bytes of a valid input of hasha: a string, a buffer, or an array
\* of strings and buffers.
IsPart(x) == x.t \in {"string", "buffer"}
IsValidInput(x) ==
    \/ IsPart(x)
    \/ x.t = "array" /\ \A i \in 1..Len(x.v) : IsPart(x.v[i])
InputBytes(x) == IF x.t = "array" THEN ConcatBytes(x.v) ELSE ConcatBytes(<<x>>)

----------------------------------------------------------------------------
\* C1: while the worker has not faulted, the promise of every task is
\* settled by at most one call of resolve or reject, it is pending exactly
\* when none was made, and it is pending only while its request, its
\* handler or its response is still on its way: once the response has been
\* delivered the promise is settled, exactly once.
C1_SettledExactlyOnce ==
    ~faulted =>
        \A c \in CallIds :
            IsTask(c) =>
                /\ calls[c].fut.settles <= 1
                /\ (calls[c].fut.state = "pending") = (calls[c].fut.settles = 0)
                /\ (calls[c].fut.settles = 0 => InFlight(calls[c].id))

\* Two tasks whose responses were delivered, one resolved and one rejected.
C1_Witness ==
    /\ ~faulted
    /\ \E c1, c2 \in CallIds :
          /\ WasSent(c1) /\ WasSent(c2)
          /\ ~InFlight(calls[c1].id) /\ ~InFlight(calls[c2].id)
          /\ calls[c1].fut.state = "resolved" /\ calls[c1].fut.settles = 1
          /\ calls[c2].fut.state = "rejected" /\ calls[c2].fut.settles = 1

----------------------------------------------------------------------------
\* What a task's handler must answer for the arguments of its own call.

UnsupportedAlgorithm(c) == TaskAlgorithm(c) \notin Algorithms

\* The bytes the handler of task c hashes when nothing fails.
OwnBytes(c) ==
    IF calls[c].api = "fromFile" THEN HelloBytes
    ELSE InputBytes(calls[c].input)

\* The arguments of task c make its handler succeed, but for a failing read.
ValidTask(c) ==
    /\ ~UnsupportedAlgorithm(c)
    /\ IF calls[c].api = "fromFile" THEN calls[c].input.v = PathHello
       ELSE IsValidInput(calls[c].input)

\* The digest of the task's own input, as the call returns it.
OwnDigest(c) ==
    FromBytes(ArrBuf(Digest(TaskAlgorithm(c), OwnBytes(c))),
              Default(calls[c].options.encoding, "hex"))

ResolvedWithOwnDigest(c) ==
    /\ Returned(c).state = "resolved"
    /\ Returned(c).value = OwnDigest(c)

RejectedWith(c, error) ==
    /\ Returned(c).state = "rejected"
    /\ Returned(c).value.message = error.message

\* C2: the outcome of every settled task is decided by its own arguments
\* alone, whatever the other tasks did and in whatever order the responses
\* came: a task with an unsupported algorithm is rejected with that error,
\* and a task whose arguments are valid is resolved with the digest of its
\* own input (a file task may instead be rejected with the error of its
\* own failed read), never rejected with the error of another task.
C2_TaskIsolation ==
    \A c \in CallIds :
        (WasSent(c) /\ IsSettled(calls[c].fut)) =>
            IF UnsupportedAlgorithm(c) THEN RejectedWith(c, ErrUnsupported)
            ELSE IF ValidTask(c)
            THEN \/ ResolvedWithOwnDigest(c)
                 \/ calls[c].api = "fromFile" /\ RejectedWith(c, ErrIO)
            ELSE Returned(c).state = "rejected"

\* Two tasks outstanding together were both answered: the one with the
\* unsupported algorithm is rejected, the other resolved with its digest.
C2_Witness ==
    \E c1, c2 \in CallIds :
        /\ WasSent(c1) /\ WasSent(c2)
        /\ UnsupportedAlgorithm(c1) /\ RejectedWith(c1, ErrUnsupported)
        /\ ValidTask(c2) /\ ResolvedWithOwnDigest(c2)
        /\ calls[c2].api = "fromFile" /\ calls[c2].id < calls[c1].id

\* C3: once the worker exists it is referenced exactly while the promise
\* of some task is pending; when every promise a dispatch returned has
\* settled, unref was the last call.
C3_ReferencedIffOutstanding ==
    worker # 0 =>
        ((refd = "ref") = (\E c \in CallIds :
                              IsTask(c) /\ ~IsSettled(calls[c].fut)))

\* C6: a delivered response settles the promise of the call that allocated
\* its id, with its value or with its decoded error, and leaves the
\* promise of every other call as it was.
C6_CorrelatedById ==
    [][(toMain # <<>> /\ toMain' = Tail(toMain)) =>
        \A c \in CallIds :
            IF calls[c].id = Head(toMain).id
            THEN IF Head(toMain).error = Undefined
                 THEN /\ calls'[c].fut.state = "resolved"
                      /\ calls'[c].fut.value = Head(toMain).value
                 ELSE /\ calls'[c].fut.state = "rejected"
                      /\ calls'[c].fut.value =
                            recreateWorkerError(Head(toMain).error.v)
            ELSE calls'[c].fut = calls[c].fut]_vars

\* The response of the later task came first: the task with id 1 is
\* settled while the task with id 0 is still registered and pending.
C6_Witness ==
    \E c0, c1 \in CallIds :
        /\ calls[c0].id = 0 /\ calls[c1].id = 1
        /\ 0 \in DOMAIN tasks /\ calls[c0].fut.state = "pending"
        /\ 1 \notin DOMAIN tasks /\ IsSettled(calls[c1].fut)

\* C7: at most one worker is ever constructed; it exists exactly from the
\* first dispatch on, and the worker variable always holds the one that
\* was constructed (it is never cleared or replaced).
C7_OneWorker ==
    /\ created <= 1
    /\ worker = created
    /\ (created = 1) = (taskIdCounter > 0)

\* A second dispatch found the worker of the first and reused it.
C7_Witness ==
    taskIdCounter >= 2 /\ worker = 1 /\ created = 1

----------------------------------------------------------------------------
\* The calls answered through the worker.
Offloaded(c) == Worker # undefined /\ calls[c].api \in {"async", "fromFile"}

\* C4: for a supported algorithm and the encoding "buffer", a settled
\* hasha.async call that went through the worker is resolved exactly when
\* hasha returns for the same input and options, and then with the same
\* bytes.
C4_OffloadedEqualsSync ==
    \A c \in CallIds :
        (/\ Offloaded(c) /\ calls[c].api = "async"
         /\ calls[c].options.algorithm \in Algorithms
         /\ calls[c].options.encoding = "buffer"
         /\ IsSettled(calls[c].fut)) =>
            LET sync == hasha(calls[c].input, calls[c].options)
            IN /\ (Returned(c).state = "resolved") = sync.ok
               /\ sync.ok => Returned(c).value = sync.value

\* The worker hashed an array of a buffer and a string with a two-byte
\* character, and the call resolved with a buffer.
C4_Witness ==
    \E c \in CallIds :
        /\ Offloaded(c) /\ calls[c].api = "async"
        /\ calls[c].options = Opts("md5", "buffer")
        /\ calls[c].input = Arr(<<Buf(<<97>>), Str(<<233, 98>>)>>)
        /\ Returned(c).state = "resolved"
        /\ Returned(c).value.t = "buffer"

\* The error the handler of task c raises when it fails.
RaisedError(c) ==
    IF UnsupportedAlgorithm(c) THEN ErrUnsupported
    ELSE IF calls[c].api = "async" THEN ErrInvalidArg
    ELSE IF calls[c].input.v = PathMissing THEN ErrNoEnt
    ELSE ErrIO

IsScalar(p) == p.type \in {"string", "number", "boolean"}

\* C5: the error a task is rejected with through a response has the
\* message of the error its handler raised and every scalar property of
\* that error, with the same value.
C5_ErrorRoundTrip ==
    \A c \in CallIds :
        (WasSent(c) /\ calls[c].fut.state = "rejected") =>
            /\ calls[c].fut.value.message = RaisedError(c).message
            /\ \A p \in RaisedError(c).props :
                  IsScalar(p) => p \in calls[c].fut.value.props

\* A file task was rejected with ENOENT and kept its numeric errno, and a
\* hash task was rejected for its algorithm and kept its code.
C5_Witness ==
    \E c1, c2 \in CallIds :
        /\ WasSent(c1) /\ calls[c1].fut.state = "rejected"
        /\ RaisedError(c1) = ErrNoEnt
        /\ Prop("errno", "number", "-2") \in calls[c1].fut.value.props
        /\ WasSent(c2) /\ calls[c2].fut.state = "rejected"
        /\ RaisedError(c2) = ErrUnsupported
        /\ Prop("code", "string", "ERR_OSSL_EVP_UNSUPPORTED")
              \in calls[c2].fut.value.props

\* The concatenated code points of a sequence of strings.
RECURSIVE ConcatStrings(_)
ConcatStrings(parts) ==
    IF parts = <<>> THEN <<>>
    ELSE Head(parts).v \o ConcatStrings(Tail(parts))

IsParts(x) == x.t = "array" /\ \A i \in 1..Len(x.v) : IsPart(x.v[i])
IsStrings(x) == x.t = "array" /\ \A i \in 1..Len(x.v) : x.v[i].t = "string"

\* C8: a call whose input is an array of strings and buffers gives what
\* the same path gives for the one buffer of the concatenated bytes (and,
\* when all parts are strings, for the one concatenated string): hasha on
\* the calling thread, and the hash handler for a delivered task.
C8_PartsEqualWhole ==
    \A c \in CallIds :
        (IsParts(calls[c].input) /\ IsSettled(calls[c].fut)) =>
            IF Offloaded(c)
            THEN LET whole == handlers_hash(TaskAlgorithm(c),
                                  U8(ConcatBytes(calls[c].input.v)))
                 IN /\ (calls[c].fut.state = "resolved") = whole.ok
                    /\ whole.ok => calls[c].fut.value = whole.value
            ELSE /\ calls[c].fut =
                      Settled(hasha(Buf(ConcatBytes(calls[c].input.v)),
                                    calls[c].options))
                 /\ IsStrings(calls[c].input) =>
                      calls[c].fut =
                         Settled(hasha(Str(ConcatStrings(calls[c].input.v)),
                                       calls[c].options))

\* hasha(["a", "b"]) returned the hex digest of "ab".
C8_Witness ==
    \E c \in CallIds :
        /\ calls[c].api = "hasha"
        /\ calls[c].input = Arr(<<Str(<<97>>), Str(<<98>>)>>)
        /\ calls[c].fut.state = "resolved"
        /\ calls[c].fut.value = hasha(Str(<<97, 98>>), calls[c].options).value
        /\ calls[c].fut.value.t = "string"

\* The bytes of everything the source of stream call c emits up to its end.
SourceBytes(c) ==
    IF calls[c].api = "fromFile" THEN HelloBytes
    ELSE ConcatBytes(calls[c].input.v)

\* The digest of the whole source of stream call c, as fromStream gives it.
WholeDigest(c) ==
    HashDigest([algorithm |-> OrDefault(calls[c].options.algorithm, "sha512"),
                fed |-> SourceBytes(c)],
               OutputEncoding(calls[c].options))

\* C9: the promise of a stream call is resolved only when the source has
\* ended without an error and every chunk was fed, and then with the
\* digest of the whole source; once the source has emitted an error
\* (which it does only before its end) the promise is rejected with that
\* error, also when the source goes on and ends.
C9_StreamEndOrError ==
    \A c \in DOMAIN streams :
        /\ calls[c].fut.state = "resolved" =>
              /\ streams[c].pipe.src = "ended"
              /\ streams[c].pipe.left = <<>>
              /\ ~streams[c].pipe.errored
              /\ calls[c].fut.value = WholeDigest(c)
        /\ streams[c].pipe.errored =>
              /\ calls[c].fut.state = "rejected"
              /\ calls[c].fut.value = SourceError(streams[c].pipe)

\* A source emitted an error after its first chunk, went on and ended:
\* the promise stays rejected, the resolve at the end came too late.
C9_Witness ==
    \E c \in DOMAIN streams :
        /\ streams[c].pipe.errored
        /\ streams[c].pipe.src = "ended"
        /\ streams[c].pipe.hasher.fed # <<>>
        /\ calls[c].fut.state = "rejected"
        /\ calls[c].fut.settles = 2

\* C10: without the worker capability no worker is created, no task id is
\* allocated, nothing is registered or posted; hasha.async settles with
\* what hasha returns or throws for the same arguments, and hasha.fromFile
\* hashes the file as a stream on the calling thread.
C10_Fallback ==
    Worker = undefined =>
        /\ worker = 0 /\ created = 0 /\ refd = undefined
        /\ taskIdCounter = 0 /\ tasks = EmptyMap
        /\ toWorker = <<>> /\ toMain = <<>>
        /\ \A c \in CallIds :
              /\ calls[c].id = -1
              /\ calls[c].api = "async" =>
                    Returned(c) = Settled(hasha(calls[c].input,
                                                calls[c].options))
              /\ calls[c].api = "fromFile" =>
                    \/ c \in DOMAIN streams
                    \/ calls[c].fut.state = "rejected"

\* Without the capability, hasha.async resolved and hasha.fromFile
\* resolved from its stream.
C10_Witness ==
    /\ Worker = undefined
    /\ \E c1, c2 \in CallIds :
          /\ calls[c1].api = "async" /\ calls[c1].fut.state = "resolved"
          /\ calls[c2].api = "fromFile" /\ c2 \in DOMAIN streams
          /\ calls[c2].fut.state = "resolved"

----------------------------------------------------------------------------
\* The step that makes a call of hasha.fromStream with something that is
\* no stream.
NonStreamCall ==
    /\ Len(calls') = Len(calls) + 1
    /\ calls'[Len(calls')].api = "fromStream"
    /\ ~isStream(calls'[Len(calls')].input)

\* C11: hasha.fromStream called with a value that is no stream rejects
\* its promise with the TypeError 'Expected a stream', whatever the
\* options (no hasher is made, so an unsupported algorithm is not
\* reported), starts no pipeline and leaves the worker, the registry and
\* the message queues as they were.
C11_NonStreamRejected ==
    [][NonStreamCall =>
        /\ calls'[Len(calls')].fut = Reject(Pending, ErrExpectedStream)
        /\ calls'[Len(calls')].id = -1
        /\ UNCHANGED <<worker, created, refd, taskIdCounter, tasks, toWorker,
                       jobs, toMain, streams>>]_vars

\* fromStream was called with a string and an unsupported algorithm, and
\* rejected with the TypeError.
C11_Witness ==
    \E c \in CallIds :
        /\ calls[c].api = "fromStream"
        /\ calls[c].input = Str(<<97, 98>>)
        /\ calls[c].options.algorithm = "bogus"
        /\ calls[c].fut.state = "rejected"
        /\ calls[c].fut.value = ErrExpectedStream
        /\ c \notin DOMAIN streams

----------------------------------------------------------------------------
\* C12: the registry holds the entry of a task exactly while the promise
\* of the task is pending: no entry belongs to a settled promise, and
\* every pending task has its entry.
C12_RegisteredWhilePending ==
    /\ \A id \in DOMAIN tasks : calls[tasks[id]].fut.state = "pending"
    /\ \A c \in CallIds :
          (IsTask(c) /\ calls[c].fut.state = "pending") =>
              calls[c].id \in DOMAIN tasks

\* The ids of the messages on their way to the worker, in it, and back.
IdsInFlight ==
    {toWorker[i].id : i \in 1..Len(toWorker)} \cup DOMAIN jobs
        \cup {toMain[i].id : i \in 1..Len(toMain)}

\* C14: every request on its way to the worker, every handler running in
\* it and every response on its way back carries an id that is in the
\* registry, and the listener never found the registry without the id of
\* a response.
C14_SettlementFollowsRegistration ==
    /\ IdsInFlight \subseteq DOMAIN tasks
    /\ ~listenerThrew

\* A request waits for the worker while the response of an earlier task
\* waits for the listener; both ids are registered.
C14_Witness ==
    /\ toWorker # <<>> /\ toMain # <<>>
    /\ Head(toWorker).id # Head(toMain).id
    /\ {Head(toWorker).id, Head(toMain).id} \subseteq DOMAIN tasks

\* C18: the ids of the tasks grow strictly in the order of the calls,
\* also past a dispatch whose send threw, the counter is above all of
\* them, and each entry of the registry belongs to the call that
\* allocated its id (no registration replaced the entry of another task).
C18_IdsIncrease ==
    /\ \A c1, c2 \in CallIds :
          (IsTask(c1) /\ IsTask(c2) /\ c1 < c2) => calls[c1].id < calls[c2].id
    /\ \A c \in CallIds : calls[c].id < taskIdCounter
    /\ \A id \in DOMAIN tasks : calls[tasks[id]].id = id

\* A dispatch whose send threw was followed by another dispatch, which
\* got the next id.
C18_Witness ==
    \E c1, c2 \in CallIds :
        /\ IsTask(c1) /\ ~CanClone(calls[c1].input)
        /\ IsTask(c2) /\ c1 < c2
        /\ calls[c2].id = calls[c1].id + 1
        /\ {calls[c1].id, calls[c2].id} \subseteq DOMAIN tasks

\* C19: the step in which the worker's 'error' event fires settles no
\* task and leaves the registry and the worker as they are, and from then
\* on no step replaces or clears the worker or constructs another one.
C19_FaultIsFinal ==
    [][/\ (~faulted /\ faulted') =>
            UNCHANGED <<calls, tasks, worker, created, refd, taskIdCounter>>
       /\ faulted => (faulted' /\ worker' = worker /\ created' = created)]_vars

\* After the fault a task was dispatched to the same worker: it is
\* registered, its request went nowhere and its promise is pending.
C19_Witness ==
    /\ faulted /\ worker = 1 /\ created = 1
    /\ \E c \in CallIds :
          /\ WasSent(c) /\ calls[c].fut.state = "pending"
          /\ calls[c].id \in DOMAIN tasks
          /\ ~InFlight(calls[c].id)

----------------------------------------------------------------------------
(* The listener on a response of no task: the worker's port delivers a     *)
(* message whose id the registry does not hold (never allocated, or        *)
(* already settled).  No request of the dispatcher makes the worker post   *)
(* one; the message is put on the port from outside.                       *)

StrayResponses(id) ==
    {[id |-> id, value |-> ArrBuf(<<1>>), error |-> Undefined],
     [id |-> id, value |-> Undefined,
      error |-> [t |-> "object", v |-> EncodeError(ErrIO)]]}

StrayMessage(message) ==
    /\ worker # 0
    /\ ~listenerThrew
    /\ message.id \notin DOMAIN tasks
    /\ \A i \in 1..Len(toMain) : toMain[i].id \in DOMAIN tasks
    /\ toMain' = Append(toMain, message)
    /\ UNCHANGED <<Worker, worker, created, refd, taskIdCounter, tasks,
                   calls, toWorker, jobs, streams, faulted, listenerThrew>>

NextStray ==
    \/ \E input \in HashInputs, options \in OptionsSet :
          Len(calls) < MaxCalls /\ HashaAsync(input, options)
    \/ WorkerMessage
    \/ MainMessage
    \/ \E id \in 0..taskIdCounter :
          \E message \in StrayResponses(id) : StrayMessage(message)

SpecStray == Init /\ [][NextStray]_vars

\* The listener takes a response whose id is not in the registry.
StrayTaken ==
    /\ toMain # <<>>
    /\ Head(toMain).id \notin DOMAIN tasks
    /\ toMain' = Tail(toMain)

----------------------------------------------------------------------------
(* The worker thread on its own: the code createWorker evaluates in the    *)
(* worker, fed with requests of every method, the unknown one included.    *)

\* What a request asks for: hash of a string, of parts, under an unknown
\* algorithm, of a part that is no string or buffer; hashFile of a file,
\* of a missing file, under an unknown algorithm; a method the worker has
\* no handler for.
WorkerRequests ==
    {[method |-> "hash", args |-> <<"sha512", Str(<<97, 98>>)>>],
     [method |-> "hash", args |-> <<"md5", Arr(<<U8(<<97>>), Str(<<98>>)>>)>>],
     [method |-> "hash", args |-> <<"bogus", Str(<<97, 98>>)>>],
     [method |-> "hash", args |-> <<"sha512", Arr(<<Arr(<<>>)>>)>>],
     [method |-> "hashFile", args |-> <<"sha512", Str(PathHello)>>],
     [method |-> "hashFile", args |-> <<"sha512", Str(PathMissing)>>],
     [method |-> "hashFile", args |-> <<"bogus", Str(PathHello)>>],
     [method |-> "hashDir", args |-> <<"sha512", Str(PathHello)>>]}

\* The request messages 0 .. MaxRequests - 1, in the order they arrive.
RequestQueues ==
    {[i \in 1..MaxRequests |->
         [id |-> i - 1, method |-> q[i].method, args |-> q[i].args]] :
       q \in [1..MaxRequests -> WorkerRequests]}

InitWorker ==
    /\ Worker = "Worker"
    /\ worker = 1
    /\ created = 1
    /\ refd = "ref"
    /\ taskIdCounter = MaxRequests
    /\ tasks = EmptyMap
    /\ calls = <<>>
    /\ toWorker \in RequestQueues
    /\ jobs = EmptyMap
    /\ toMain = <<>>
    /\ streams = EmptyMap
    /\ faulted = FALSE
    /\ listenerThrew = FALSE

NextWorker ==
    \/ WorkerMessage
    \/ \E id \in DOMAIN jobs : WorkerFileData(id)
    \/ \E id \in DOMAIN jobs : WorkerFileFinish(id)
    \/ \E id \in DOMAIN jobs : WorkerFileError(id)

SpecWorker == InitWorker /\ [][NextWorker]_vars

\* How many messages of a queue carry the id.
CountId(queue, id) == Cardinality({i \in 1..Len(queue) : queue[i].id = id})

\* C15: each request is, at every moment, waiting for the worker, or
\* running in it, or answered by exactly one response of its id, never
\* two of these and never none; and each response has exactly one of
\* value and error.
C15_OneResponsePerRequest ==
    /\ \A id \in 0..(MaxRequests - 1) :
          CountId(toWorker, id) + (IF id \in DOMAIN jobs THEN 1 ELSE 0)
              + CountId(toMain, id) = 1
    /\ \A i \in 1..Len(toMain) :
          (toMain[i].value = Undefined) # (toMain[i].error = Undefined)

\* The worker has answered a request of an unknown method with an error
\* and a hashFile request with a value, once each.
C15_Witness ==
    /\ toWorker = <<>> /\ jobs = EmptyMap /\ Len(toMain) = 2
    /\ \E i, j \in 1..2 :
          /\ toMain[i].error # Undefined
          /\ Prop("message", "string", ErrUnknownMethod.message)
                \in toMain[i].error.v
          /\ toMain[j].value = ArrBuf(Digest("sha512", HelloBytes))

----------------------------------------------------------------------------
(* The error encoder on errors of every shape: a handler of the worker     *)
(* throws an error carrying one own enumerable field of each typeof.       *)

FieldKinds ==
    {Prop("detail", "string", "x"), Prop("errno", "number", "-5"),
     Prop("fatal", "boolean", "true"), Prop("cause", "object", "{}"),
     Prop("errors", "object", "[]"), Prop("info", "object", "null"),
     Prop("retry", "function", "() => {}"), Prop("tag", "symbol", "Symbol()"),
     Prop("path", "undefined", "undefined"), Prop("size", "bigint", "1n")}

ThrownErrors ==
    {MkError("boom", "at handler", {})}
        \cup {MkError("boom", "at handler", {field}) : field \in FieldKinds}

\* The handler of the next request throws the error (or its promise
\* rejects with it) and the catch block encodes and posts it.  When
\* postMessage refuses the encoded error, the exception leaves the async
\* listener as an unhandled rejection of the worker: a warning, or the end
\* of the worker, by the version of the runtime.
WorkerCatch(error) ==
    /\ toWorker # <<>>
    /\ ~faulted
    /\ toWorker' = Tail(toWorker)
    /\ toMain' = toMain \o Response(Head(toWorker).id, Throw(error))
    /\ IF Cloneable(EncodeError(error)) THEN faulted' = faulted
       ELSE faulted' \in {faulted, TRUE}
    /\ UNCHANGED <<Worker, worker, created, refd, taskIdCounter, tasks,
                   calls, jobs, streams, listenerThrew>>

NextCodec ==
    \/ NextWorker
    \/ \E error \in ThrownErrors : WorkerCatch(error)

SpecCodec == InitWorker /\ [][NextCodec]_vars

----------------------------------------------------------------------------
(* The options alone: hasha and hasha.async over every combination of an   *)
(* absent, falsy or given algorithm and encoding.                          *)

OptionInputs == {Str(<<97, 98>>), Arr(<<Buf(<<97>>), Str(<<98>>)>>)}

FalsyOptions ==
    {Opts(algorithm, encoding) :
        algorithm \in {undefined, "null", "", "md5"},
        encoding \in {undefined, "null", "", "buffer", "latin1"}}

NextOptions ==
    \/ \E input \in OptionInputs, options \in FalsyOptions :
          Len(calls) < MaxHashCalls /\ Hasha(input, options)
    \/ \E input \in OptionInputs, options \in FalsyOptions :
          Len(calls) < MaxHashCalls /\ HashaAsync(input, options)
    \/ WorkerMessage
    \/ MainMessage

SpecOptions == Init /\ [][NextOptions]_vars

\* C17: for every options value, a settled hasha.async call that went
\* through the worker is resolved exactly when hasha returns for the same
\* input and options, and then with the value hasha returns.
C17_AsyncSameAsSync ==
    \A c \in CallIds :
        (calls[c].api = "async" /\ Offloaded(c) /\ IsSettled(calls[c].fut)) =>
            LET sync == hasha(calls[c].input, calls[c].options)
            IN /\ sync.ok = (Returned(c).state = "resolved")
               /\ sync.ok => sync.value = Returned(c).value

----------------------------------------------------------------------------
(* Progress: the process without a fault of the worker, where the worker   *)
(* takes every request it received, every response is delivered to the     *)
(* listener, and every file read goes on until it ends or fails.           *)

NextNoFault ==
    \/ \E input \in HashInputs, options \in OptionsSet :
          Len(calls) < MaxCalls /\ Hasha(input, options)
    \/ \E input \in HashInputs, options \in OptionsSet :
          Len(calls) < MaxCalls /\ HashaAsync(input, options)
    \/ \E filePath \in FilePaths, options \in FileOptions :
          Len(calls) < MaxCalls /\ HashaFromFile(filePath, options)
    \/ \E stream \in StreamInputs, options \in StreamOptions :
          Len(calls) < MaxCalls /\ HashaFromStream(stream, options)
    \/ \E c \in DOMAIN streams : StreamData(c)
    \/ \E c \in DOMAIN streams : StreamFinish(c)
    \/ \E c \in DOMAIN streams : StreamError(c)
    \/ WorkerMessage
    \/ \E id \in DOMAIN jobs : WorkerFileData(id)
    \/ \E id \in DOMAIN jobs : WorkerFileFinish(id)
    \/ \E id \in DOMAIN jobs : WorkerFileError(id)
    \/ MainMessage

\* A hashFile handler of the worker moves on: its read stream emits a
\* chunk, ends or fails.
WorkerFileStep ==
    \E id \in DOMAIN jobs :
        WorkerFileData(id) \/ WorkerFileFinish(id) \/ WorkerFileError(id)

SpecFair ==
    /\ Init
    /\ [][NextNoFault]_vars
    /\ WF_vars(WorkerMessage)
    /\ WF_vars(WorkerFileStep)
    /\ WF_vars(MainMessage)

\* Every task's promise is settled and the registry is empty.
Quiescent ==
    /\ tasks = EmptyMap
    /\ \A c \in CallIds : IsTask(c) => IsSettled(calls[c].fut)

\* C20: without a fault of the worker and under fair processing, the
\* process reaches, and from then on stays in, states where every
\* dispatched task's promise is settled and the registry is empty.
C20_EveryTaskSettles == <>[]Quiescent

====
